---- MODULE Spec2Model ----
(***************************************************************************)
(* A model of live-directory: the Map-based LiveDirectory                  *)
(* (src/unnamed/part_004) with its initial recursive scan, its chokidar    *)
(* watcher and the asynchronous file reads of _create_stats.               *)
(*                                                                         *)
(* Strings are tuples of one-character strings, so that startsWith,        *)
(* replace, split and pop are computed as the code computes them.          *)
(* An optional value is a sequence: <<>> is undefined, <<v>> is v.         *)
(***************************************************************************)
EXTENDS Integers, Sequences, FiniteSets, Bags, TLC

(***************************************************************************)
(* Bounds of the model.                                                    *)
(***************************************************************************)
\* Disk operations (create, write, delete) the environment performs in a run.
MaxDiskOps == 2
\* Calls of destory() in a run.
MaxDestroy == 1

(***************************************************************************)
(* String helpers (JavaScript String methods on character tuples).         *)
(***************************************************************************)
startsWith(s, prefix) ==
    /\ Len(prefix) <= Len(s)
    /\ SubSeq(s, 1, Len(prefix)) = prefix

\* Index of the first occurrence of pattern in s, 0 when there is none.
indexOf(s, pattern) ==
    LET hits == { i \in 1..(Len(s) - Len(pattern) + 1) :
                    SubSeq(s, i, i + Len(pattern) - 1) = pattern }
    IN  IF hits = {} THEN 0 ELSE CHOOSE i \in hits : \A j \in hits : i <= j

\* s.replace(pattern, ''): the first occurrence of pattern removed.
replaceFirst(s, pattern) ==
    LET i == indexOf(s, pattern)
    IN  IF i = 0 \/ pattern = <<>> THEN s
        ELSE SubSeq(s, 1, i - 1) \o SubSeq(s, i + Len(pattern), Len(s))

\* s.split(sep).pop(): what follows the last sep, the whole of s without one.
lastPart(s, sep) ==
    LET at == { i \in 1..Len(s) : s[i] = sep }
    IN  IF at = {} THEN s
        ELSE SubSeq(s, (CHOOSE i \in at : \A j \in at : j <= i) + 1, Len(s))

\* path.split('\\').join('/')
forward_slashes(path) ==
    [i \in 1..Len(path) |-> IF path[i] = "\\" THEN "/" ELSE path[i]]

(***************************************************************************)
(* The directory tree on disk: a root, one sub directory, two files. The   *)
(* sub directory bears the root's name, so that the relative path of its   *)
(* file begins with the text of the root path.                             *)
(***************************************************************************)
Root == <<"/", "r">>
SubDir == Root \o <<"/", "r">>
FileA == Root \o <<"/", "a", ".", "j">>
FileB == SubDir \o <<"/", "b", ".", "h">>

Dirs == {Root, SubDir}
FilePaths == {FileA, FileB}

\* The directory a path lies in.
parentOf(path) ==
    SubSeq(path, 1, Len(path) - Len(lastPart(path, "/")) - 1)

\* File contents are byte strings; a file's size is its length.
Contents == {<<"x">>, <<"y">>, <<"x", "x">>}

NoFile == [exists |-> FALSE, content |-> <<>>, mtime |-> 0]

\* fs.Stats of a file: size and the change/modification times.
StatsOf(file) ==
    [size |-> Len(file.content), ctimeMs |-> file.mtime, mtimeMs |-> file.mtime]

(***************************************************************************)
(* Options of the constructor.                                             *)
(***************************************************************************)
\* A filter is undefined (<<>>) or <<[names, extensions]>>.
NoFilter == <<>>
Props(names, extensions) == <<[names |-> names, extensions |-> extensions]>>

FilterOptions ==
    { [keep |-> NoFilter, ignore |-> NoFilter],
      [keep |-> Props({}, {<<"j">>}), ignore |-> NoFilter],
      [keep |-> NoFilter, ignore |-> Props({}, {<<"h">>})],
      [keep |-> Props({}, {}), ignore |-> NoFilter],
      [keep |-> NoFilter, ignore |-> Props({<<"r">>}, {})] }

\* cache.max_file_count and cache.max_file_size: room for one file or for
\* both, and a size limit that the longest content exceeds.
CacheOptions ==
    { [max_file_count |-> 1, max_file_size |-> 1],
      [max_file_count |-> 2, max_file_size |-> 1] }

VARIABLES
    options,    \* the merged constructor options
    accessible, \* whether is_accessible_path(path) finds the root accessible
    disk,       \* the file system: file path -> file or NoFile
    disk0,      \* the file system when the instance was constructed
    hist,       \* per file path, the disk operations performed on it
    phase,      \* "constructing", "scanning", "ready", "failed"
    path,       \* #path: <<>> until the root was found accessible
    tasks,      \* pending readdir and stat calls of _initialize
    reloads,    \* _modify calls awaiting FileSystem.readFile
    watcher,    \* #watcher: "undefined", "open" or "closed"
    wqueue,     \* events the watcher has detected and not yet emitted
    files,      \* #files
    cached,     \* #cached (the keys; the timestamps are never read)
    notes,      \* bag of the notifications emitted: <<name, path>>
    failed,     \* paths whose stat or read was rejected
    destroyed,  \* number of destory() calls so far
    livefile,   \* a LiveFile object: its #etag, #stats and #content
    lfrun,      \* the reload() calls of that object, in flight and past
    asked,      \* the last path put to #filter and its verdict, or <<>>
    treedir,    \* the tree-based LiveDirectory and the ready() calls made on it
    dirtree,    \* a DirectoryTree under the watcher handlers of that class
    retryfile   \* a LiveFile with a retry policy and its reload() calls

dirvars == <<options, accessible, disk0, phase, path, tasks, reloads,
             watcher, wqueue, files, cached, notes, failed, destroyed, asked,
             treedir, dirtree, retryfile>>

vars == <<options, accessible, disk, disk0, hist, phase, path, tasks, reloads,
          watcher, wqueue, files, cached, notes, failed, destroyed,
          livefile, lfrun, asked, treedir,
          dirtree, retryfile>>


(***************************************************************************)
(* Pure helpers of the class.                                              *)
(***************************************************************************)
\* Both lists required to match instead of either.
_to_lookup_function_and(properties, p) ==
    LET name == lastPart(p, "/")
        extension == lastPart(name, ".")
    IN  extension \in properties.extensions /\ name \in properties.names

\* The function _to_lookup_function(properties) returns, applied to p.
_to_lookup_function(properties, p) ==
    LET name == lastPart(p, "/")
        extension == lastPart(name, ".")
    IN  extension \in properties.extensions \/ name \in properties.names

\* keep defaults to () => true, ignore to () => false.
satisfies_keep(p) ==
    IF options.filter.keep = NoFilter THEN TRUE
    ELSE _to_lookup_function(options.filter.keep[1], p)

satisfies_ignore(p) ==
    IF options.filter.ignore = NoFilter THEN FALSE
    ELSE _to_lookup_function(options.filter.ignore[1], p)

\* A slip in composing the two filters: both must hold to exclude a path.
_should_ignore_both(p) ==
    IF path = <<>> THEN FALSE
    ELSE ~satisfies_keep(p) /\ satisfies_ignore(p)

\* The ignore filter left out of the compiled #filter.
_should_ignore_keep_only(p) ==
    IF path = <<>> THEN FALSE
    ELSE ~satisfies_keep(p)

\* #filter, compiled in the step that sets #path.
_should_ignore(p) ==
    IF path = <<>> THEN FALSE
    ELSE ~satisfies_keep(p) \/ satisfies_ignore(p)

\* The root's text removed wherever it occurs, not only at the start.
_to_relative_path_anywhere(p) ==
    LET stripped == IF path # <<>> THEN replaceFirst(p, path[1]) ELSE p
    IN  IF ~startsWith(stripped, <<"/">>) THEN <<"/">> \o stripped ELSE stripped

_to_relative_path(p) ==
    LET stripped == IF path # <<>> /\ startsWith(p, path[1])
                    THEN replaceFirst(p, path[1])
                    ELSE p
    IN  IF ~startsWith(stripped, <<"/">>) THEN <<"/">> \o stripped ELSE stripped

\* An MD5 digest, taken to be free of collisions: the digest names its input.
_md5_hash(input) == <<"md5", input>>

StrongETag(content) == <<"\"", _md5_hash(content), "\"">>
WeakETag(stats) ==
    <<"W/", "\"", _md5_hash(<<stats.size, stats.ctimeMs, stats.mtimeMs>>), "\"">>

\* An off-by-one in the count test: a full cache admits one more file.
should_be_cached_full(size) ==
    /\ size <= options.cache.max_file_size
    /\ Cardinality(cached) <= options.cache.max_file_count

\* The size test left out: any file is cached while there is room.
should_be_cached_any_size(size) ==
    Cardinality(cached) < options.cache.max_file_count

\* The count test reversed: nothing is cached until the cache is over full.
should_be_cached_reversed(size) ==
    /\ size <= options.cache.max_file_size
    /\ Cardinality(cached) > options.cache.max_file_count

should_be_cached(size) ==
    /\ size <= options.cache.max_file_size
    /\ Cardinality(cached) < options.cache.max_file_count

\* The object _create_stats returns.
FileStats(p, stats, cache, content) ==
    [path |-> p,
     etag |-> IF cache THEN StrongETag(content[1]) ELSE WeakETag(stats),
     stats |-> stats,
     cached |-> cache,
     _content |-> content]

MapSet(map, key, value) ==
    [k \in DOMAIN map \cup {key} |-> IF k = key THEN value ELSE map[k]]

MapDelete(map, key) == [k \in DOMAIN map \ {key} |-> map[k]]

\* this.emit(name, relative_uri, ...)
Emit(name, uri) == notes (+) SetToBag({<<name, uri>>})

\* info(p): the entry of p, <<>> when there is none.
info(p) ==
    LET uri == _to_relative_path(p)
    IN  IF uri \in DOMAIN files THEN <<files[uri]>> ELSE <<>>

\* content(p): the cached content or a stream on the file, <<>> when p has
\* no entry.
content(p) ==
    LET file == info(p)
    IN  IF file # <<>>
        THEN IF file[1].cached THEN file[1]._content
             ELSE <<"ReadStream", file[1].path>>
        ELSE <<>>

(***************************************************************************)
(* The chokidar watcher: it asks options.watcher.ignored about the root,   *)
(* about every directory on the way down and about the file, and reports   *)
(* only what none of them excludes.                                        *)
(***************************************************************************)
Ancestors(p) == { d \in Dirs : startsWith(p, d \o <<"/">>) }

WatcherReports(p) ==
    /\ watcher = "open"
    /\ \A q \in Ancestors(p) \cup {p} : ~_should_ignore(q)

DiskOps == Len(hist[FileA]) + Len(hist[FileB])

\* new LiveFile(path): every private field but #path is undefined.
NewLiveFile == [etag |-> <<>>, stats |-> <<>>, content |-> <<>>]

\* No reload() was called yet.
NoRuns == [calls |-> {}, started |-> 0, updates |-> 0,
           last |-> "none", good |-> <<>>, seen |-> <<>>]

\* The tree-based LiveDirectory before it is constructed.
NoTree ==
    [accessible |-> FALSE, hot_reload |-> TRUE, stage |-> "none",
     watcher |-> "undefined", tree |-> {}, buffer |-> {}, flushed |-> {},
     awaited |-> {}, ready_promise |-> "undefined", ready_resolve |-> FALSE,
     resolves |-> 0, calls |-> <<>>]

\* new DirectoryTree(): #structure and #files are empty; no LiveFile was
\* made and no handler has run.
NoDirTree == [structure |-> {}, files |-> <<>>, made |-> 0, last |-> <<>>]

\* A LiveFile with a retry policy on which reload() was not called yet.
NoRetryFile ==
    [max |-> 0, buffer |-> <<>>, reload_promise |-> 0, reload_resolve |-> 0,
     promises |-> <<>>, reads |-> {}, calls |-> <<>>,
     ready_promise |-> "undefined", last |-> <<>>]

InitialDisks ==
    { [p \in FilePaths |->
         IF p = FileA /\ ~withA THEN NoFile
         ELSE [exists |-> TRUE, content |-> <<"x">>, mtime |-> 0]] :
      withA \in BOOLEAN }

Init ==
    /\ options \in [static : BOOLEAN,
                    cache : CacheOptions,
                    filter : FilterOptions]
    /\ accessible \in BOOLEAN
    /\ disk \in InitialDisks
    /\ disk0 = disk
    /\ hist = [p \in FilePaths |-> <<>>]
    /\ phase = "constructing"
    /\ path = <<>>
    /\ tasks = {}
    /\ reloads = {}
    /\ watcher = "undefined"
    /\ wqueue = <<>>
    /\ files = <<>>
    /\ cached = {}
    /\ notes = EmptyBag
    /\ failed = {}
    /\ destroyed = 0
    /\ livefile = NewLiveFile
    /\ lfrun = NoRuns
    /\ asked = <<>>
    /\ dirtree = NoDirTree
    /\ retryfile = NoRetryFile
    /\ treedir = NoTree

(***************************************************************************)
(* The constructor's continuation once is_accessible_path has answered.    *)
(***************************************************************************)
Construct ==
    /\ phase = "constructing"
    /\ IF accessible
       THEN /\ path' = <<Root>>
            /\ phase' = "scanning"
            /\ tasks' = {[op |-> "readdir", path |-> Root]}
       ELSE /\ phase' = "failed"
            /\ UNCHANGED <<path, tasks>>
    /\ UNCHANGED <<asked, treedir, dirtree, retryfile, livefile, lfrun, options, accessible, disk, disk0, hist, reloads, watcher,
                   wqueue, files, cached, notes, failed, destroyed>>

(***************************************************************************)
(* _modify('add' | 'update', p, stats) up to its first suspension: the     *)
(* caching decision and #cached.set run in the caller's turn. Without      *)
(* caching nothing is awaited but a resolved promise, so the rest of       *)
(* _modify runs before any other callback.                                 *)
(***************************************************************************)
\* A full cache makes room: the paths cached so far are dropped from #cached.
StartModify_evicting(action, p, stats, scan) ==
    LET uri == _to_relative_path(p) IN
    IF stats.size <= options.cache.max_file_size
    THEN /\ cached' = IF should_be_cached(stats.size) THEN cached \cup {uri}
                       ELSE {uri}
         /\ reloads' = reloads \cup
                {[action |-> action, path |-> p, stats |-> stats, scan |-> scan,
                  phase |-> "reading", content |-> <<>>]}
         /\ UNCHANGED <<files, notes>>
    ELSE /\ files' = MapSet(files, uri, FileStats(p, stats, FALSE, <<>>))
         /\ notes' = Emit(action, uri)
         /\ UNCHANGED <<cached, reloads>>

StartModify(action, p, stats, scan) ==
    LET uri == _to_relative_path(p) IN
    IF should_be_cached(stats.size)
    THEN /\ cached' = cached \cup {uri}
         /\ reloads' = reloads \cup
                {[action |-> action, path |-> p, stats |-> stats, scan |-> scan,
                  phase |-> "reading", content |-> <<>>]}
         /\ UNCHANGED <<files, notes>>
    ELSE /\ files' = MapSet(files, uri, FileStats(p, stats, FALSE, <<>>))
         /\ notes' = Emit(action, uri)
         /\ UNCHANGED <<cached, reloads>>

\* _modify('delete', p)
DeleteModify(p) ==
    LET uri == _to_relative_path(p) IN
    /\ files' = MapDelete(files, uri)
    /\ cached' = cached \ {uri}
    /\ notes' = Emit("delete", uri)
    /\ UNCHANGED reloads

(***************************************************************************)
(* _initialize: readdir of a directory, stat of a file.                    *)
(***************************************************************************)
ReadDir ==
    \E t \in tasks :
        /\ t.op = "readdir"
        /\ tasks' = (tasks \ {t})
              \cup { [op |-> "readdir", path |-> d] :
                        d \in { d \in Dirs : d # t.path /\ parentOf(d) = t.path } }
              \cup { [op |-> "stat", path |-> f] :
                        f \in { f \in FilePaths :
                                  disk[f].exists /\ parentOf(f) = t.path } }
        /\ UNCHANGED <<asked, treedir, dirtree, retryfile, livefile, lfrun, options, accessible, disk, disk0, hist, phase, path,
                       reloads, watcher, wqueue, files, cached, notes, failed,
                       destroyed>>

\* A promise of the scan that never settles keeps Promise.all pending.
Pending(p) == [op |-> "pending", path |-> p]

StatFile ==
    \E t \in tasks :
        /\ t.op = "stat"
        /\ IF ~disk[t.path].exists
           THEN /\ tasks' = (tasks \ {t}) \cup {Pending(t.path)}
                /\ failed' = failed \cup {t.path}
                /\ UNCHANGED <<reloads, files, cached, notes>>
           ELSE /\ tasks' = tasks \ {t}
                /\ failed' = failed
                /\ IF _should_ignore(t.path)
                   THEN UNCHANGED <<reloads, files, cached, notes>>
                   ELSE StartModify("add", t.path, StatsOf(disk[t.path]), TRUE)
        /\ UNCHANGED <<asked, treedir, dirtree, retryfile, livefile, lfrun, options, accessible, disk, disk0, hist, phase, path,
                       watcher, wqueue, destroyed>>

(***************************************************************************)
(* FileSystem.readFile of a reload, and what follows the await.            *)
(***************************************************************************)
ReadFile ==
    \E r \in reloads :
        /\ r.phase = "reading"
        /\ IF disk[r.path].exists
           THEN /\ reloads' = (reloads \ {r}) \cup
                      {[r EXCEPT !.phase = "read",
                                 !.content = <<disk[r.path].content>>]}
                /\ UNCHANGED <<tasks, failed>>
           ELSE /\ reloads' = reloads \ {r}
                /\ failed' = failed \cup {r.path}
                /\ tasks' = IF r.scan THEN tasks \cup {Pending(r.path)} ELSE tasks
        /\ UNCHANGED <<asked, treedir, dirtree, retryfile, livefile, lfrun, options, accessible, disk, disk0, hist, phase, path,
                       watcher, wqueue, files, cached, notes, destroyed>>

FinishModify ==
    \E r \in reloads :
        /\ r.phase = "read"
        /\ reloads' = reloads \ {r}
        /\ files' = MapSet(files, _to_relative_path(r.path),
                           FileStats(r.path, r.stats, TRUE, r.content))
        /\ notes' = Emit(r.action, _to_relative_path(r.path))
        /\ UNCHANGED <<asked, treedir, dirtree, retryfile, livefile, lfrun, options, accessible, disk, disk0, hist, phase, path,
                       tasks, watcher, wqueue, cached, failed, destroyed>>

(***************************************************************************)
(* The scan's Promise.all resolves: 'ready', then _watch unless static.    *)
(***************************************************************************)
\* The scan's promises not awaited: ready as soon as the root is accessible.
Ready_early ==
    /\ phase = "scanning"
    /\ phase' = "ready"
    /\ notes' = Emit("ready", <<>>)
    /\ watcher' = IF ~options.static THEN "open" ELSE watcher
    /\ UNCHANGED <<asked, treedir, dirtree, retryfile, livefile, lfrun, options, accessible, disk, disk0, hist, path, tasks,
                   reloads, wqueue, files, cached, failed, destroyed>>

\* _watch called whether or not the instance is static.
Ready_watching ==
    /\ phase = "scanning"
    /\ tasks = {}
    /\ \A r \in reloads : ~r.scan
    /\ phase' = "ready"
    /\ notes' = Emit("ready", <<>>)
    /\ watcher' = "open"
    /\ UNCHANGED <<asked, treedir, dirtree, retryfile, livefile, lfrun, options, accessible, disk, disk0, hist, path, tasks,
                   reloads, wqueue, files, cached, failed, destroyed>>

Ready ==
    /\ phase = "scanning"
    /\ tasks = {}
    /\ \A r \in reloads : ~r.scan
    /\ phase' = "ready"
    /\ notes' = Emit("ready", <<>>)
    /\ watcher' = IF ~options.static THEN "open" ELSE watcher
    /\ UNCHANGED <<asked, treedir, dirtree, retryfile, livefile, lfrun, options, accessible, disk, disk0, hist, path, tasks,
                   reloads, wqueue, files, cached, failed, destroyed>>

(***************************************************************************)
(* The environment writes to the directory; an open watcher queues the     *)
(* event with the stats it read (alwaysStat).                              *)
(***************************************************************************)
Record(p, op) ==
    [hist EXCEPT ![p] =
        Append(@, [op |-> op, watched |-> watcher = "open", phase |-> phase])]

Detect(type, p, stats) ==
    wqueue' = IF WatcherReports(p)
              THEN Append(wqueue, [type |-> type, path |-> p, stats |-> stats])
              ELSE wqueue

DiskCreate ==
    \E p \in FilePaths, c \in Contents :
        /\ phase # "constructing"
        /\ DiskOps < MaxDiskOps
        /\ ~disk[p].exists
        /\ disk' = [disk EXCEPT ![p] =
                      [exists |-> TRUE, content |-> c, mtime |-> Len(hist[p]) + 1]]
        /\ hist' = Record(p, "create")
        /\ Detect("add", p, <<StatsOf(disk'[p])>>)
        /\ UNCHANGED <<asked, treedir, dirtree, retryfile, livefile, lfrun, options, accessible, disk0, phase, path, tasks, reloads,
                       watcher, files, cached, notes, failed, destroyed>>

DiskWrite ==
    \E p \in FilePaths, c \in Contents :
        /\ phase # "constructing"
        /\ DiskOps < MaxDiskOps
        /\ disk[p].exists
        /\ disk' = [disk EXCEPT ![p] =
                      [exists |-> TRUE, content |-> c, mtime |-> Len(hist[p]) + 1]]
        /\ hist' = Record(p, "write")
        /\ Detect("change", p, <<StatsOf(disk'[p])>>)
        /\ UNCHANGED <<asked, treedir, dirtree, retryfile, livefile, lfrun, options, accessible, disk0, phase, path, tasks, reloads,
                       watcher, files, cached, notes, failed, destroyed>>

DiskDelete ==
    \E p \in FilePaths :
        /\ phase # "constructing"
        /\ DiskOps < MaxDiskOps
        /\ disk[p].exists
        /\ disk' = [disk EXCEPT ![p] = NoFile]
        /\ hist' = Record(p, "delete")
        /\ Detect("unlink", p, <<>>)
        /\ UNCHANGED <<asked, treedir, dirtree, retryfile, livefile, lfrun, options, accessible, disk0, phase, path, tasks, reloads,
                       watcher, files, cached, notes, failed, destroyed>>

(***************************************************************************)
(* The watcher emits its oldest event to the listeners _watch registered.  *)
(***************************************************************************)
WatchEvent ==
    /\ watcher = "open"
    /\ wqueue # <<>>
    /\ LET e == Head(wqueue) IN
         CASE e.type = "add" ->
                StartModify("add", forward_slashes(e.path), e.stats[1], FALSE)
           [] e.type = "change" ->
                StartModify("update", forward_slashes(e.path), e.stats[1], FALSE)
           [] e.type = "unlink" ->
                DeleteModify(forward_slashes(e.path))
    /\ wqueue' = Tail(wqueue)
    /\ UNCHANGED <<asked, treedir, dirtree, retryfile, livefile, lfrun, options, accessible, disk, disk0, hist, phase, path, tasks,
                   watcher, failed, destroyed>>

(***************************************************************************)
(* destory(): close the watcher, clear both maps, emit 'destory'.          *)
(***************************************************************************)
Destroy ==
    /\ destroyed < MaxDestroy
    /\ destroyed' = destroyed + 1
    /\ watcher' = IF watcher = "open" THEN "closed" ELSE watcher
    /\ wqueue' = <<>>
    /\ files' = <<>>
    /\ cached' = {}
    /\ notes' = Emit("destory", <<>>)
    /\ UNCHANGED <<asked, treedir, dirtree, retryfile, livefile, lfrun, options, accessible, disk, disk0, hist, phase, path, tasks,
                   reloads, failed>>

Next ==
    \/ Construct
    \/ ReadDir
    \/ StatFile
    \/ ReadFile
    \/ FinishModify
    \/ Ready
    \/ DiskCreate
    \/ DiskWrite
    \/ DiskDelete
    \/ WatchEvent
    \/ Destroy

Spec == Init /\ [][Next]_vars

(***************************************************************************)
(* LiveFile: one file object and its reload(stats, cache). The caller      *)
(* passes the stats of the file as it is, or none, and decides cache.      *)
(***************************************************************************)
MaxReloads == 3
MaxReadyCalls == 2

\* #path of the LiveFile.
LivePath == FileA

\* get cached()
LiveCached == livefile.content # <<>>

\* The end of reload(): emit('update', this). The entry and the file as
\* they are at that moment are remembered.
EmitUpdate(run) ==
    [run EXCEPT !.updates = @ + 1, !.last = "ok", !.good = <<livefile'>>,
                !.seen = <<disk[LivePath]>>]

\* reload() when it does not cache: the weak etag, then 'update'.
ReloadWeak(stats) ==
    /\ livefile' = [livefile EXCEPT !.stats = <<stats>>, !.etag = <<WeakETag(stats)>>]
    /\ lfrun' = EmitUpdate([lfrun EXCEPT !.started = @ + 1])

LiveFileInit ==
    /\ options = [static |-> TRUE,
                  cache |-> [max_file_count |-> 1, max_file_size |-> 1],
                  filter |-> [keep |-> NoFilter, ignore |-> NoFilter]]
    /\ accessible = FALSE
    /\ disk \in InitialDisks
    /\ disk0 = disk
    /\ hist = [p \in FilePaths |-> <<>>]
    /\ phase = "constructing"
    /\ path = <<>>
    /\ tasks = {}
    /\ reloads = {}
    /\ watcher = "undefined"
    /\ wqueue = <<>>
    /\ files = <<>>
    /\ cached = {}
    /\ notes = EmptyBag
    /\ failed = {}
    /\ destroyed = 0
    /\ livefile = NewLiveFile
    /\ lfrun = NoRuns
    /\ asked = <<>>
    /\ dirtree = NoDirTree
    /\ retryfile = NoRetryFile
    /\ treedir = NoTree

\* reload(stats, cache) called with the stats of the file.
ReloadWithStats ==
    \E cache \in BOOLEAN :
        /\ lfrun.started < MaxReloads
        /\ disk[LivePath].exists
        /\ LET stats == StatsOf(disk[LivePath]) IN
           IF cache
           THEN /\ livefile' = [livefile EXCEPT !.stats = <<stats>>]
                /\ lfrun' = [lfrun EXCEPT
                      !.started = @ + 1,
                      !.calls = @ \cup {[id |-> lfrun.started + 1, pc |-> "read",
                                         cache |-> TRUE, content |-> <<>>]}]
           ELSE ReloadWeak(stats)
        /\ UNCHANGED <<dirvars, disk, hist>>

\* reload(undefined, cache): the call suspends on FileSystem.stat.
ReloadWithoutStats ==
    \E cache \in BOOLEAN :
        /\ lfrun.started < MaxReloads
        /\ lfrun' = [lfrun EXCEPT
              !.started = @ + 1,
              !.calls = @ \cup {[id |-> lfrun.started + 1, pc |-> "stat",
                                 cache |-> cache, content |-> <<>>]}]
        /\ UNCHANGED <<dirvars, disk, hist, livefile>>

\* FileSystem.stat returns, or rejects and ends the call.
ReloadStat ==
    \E c \in lfrun.calls :
        /\ c.pc = "stat"
        /\ IF ~disk[LivePath].exists
           THEN /\ lfrun' = [lfrun EXCEPT !.calls = @ \ {c}, !.last = "failed"]
                /\ UNCHANGED livefile
           ELSE LET stats == StatsOf(disk[LivePath]) IN
                IF c.cache
                THEN /\ livefile' = [livefile EXCEPT !.stats = <<stats>>]
                     /\ lfrun' = [lfrun EXCEPT
                           !.calls = (@ \ {c}) \cup {[c EXCEPT !.pc = "read"]}]
                ELSE /\ livefile' = [livefile EXCEPT !.stats = <<stats>>,
                                                     !.etag = <<WeakETag(stats)>>]
                     /\ lfrun' = EmitUpdate([lfrun EXCEPT !.calls = @ \ {c}])
        /\ UNCHANGED <<dirvars, disk, hist>>

\* FileSystem.readFile reads the file, or rejects and ends the call.
ReloadRead ==
    \E c \in lfrun.calls :
        /\ c.pc = "read"
        /\ IF ~disk[LivePath].exists
           THEN lfrun' = [lfrun EXCEPT !.calls = @ \ {c}, !.last = "failed"]
           ELSE lfrun' = [lfrun EXCEPT
                    !.calls = (@ \ {c}) \cup
                        {[c EXCEPT !.pc = "done",
                                   !.content = <<disk[LivePath].content>>]}]
        /\ UNCHANGED <<dirvars, disk, hist, livefile>>

\* What follows the await of readFile: #content, the strong etag, 'update'.
ReloadFinish ==
    \E c \in lfrun.calls :
        /\ c.pc = "done"
        /\ livefile' = [livefile EXCEPT !.content = c.content,
                                        !.etag = <<StrongETag(c.content[1])>>]
        /\ lfrun' = EmitUpdate([lfrun EXCEPT !.calls = @ \ {c}])
        /\ UNCHANGED <<dirvars, disk, hist>>

\* The file of the LiveFile is created, rewritten or removed.
LiveFileCreate ==
    \E c \in Contents :
        /\ DiskOps < MaxDiskOps
        /\ ~disk[LivePath].exists
        /\ disk' = [disk EXCEPT ![LivePath] =
                      [exists |-> TRUE, content |-> c,
                       mtime |-> Len(hist[LivePath]) + 1]]
        /\ hist' = Record(LivePath, "create")
        /\ UNCHANGED <<dirvars, livefile, lfrun>>

LiveFileWrite ==
    \E c \in Contents :
        /\ DiskOps < MaxDiskOps
        /\ disk[LivePath].exists
        /\ disk' = [disk EXCEPT ![LivePath] =
                      [exists |-> TRUE, content |-> c,
                       mtime |-> Len(hist[LivePath]) + 1]]
        /\ hist' = Record(LivePath, "write")
        /\ UNCHANGED <<dirvars, livefile, lfrun>>

LiveFileDelete ==
    /\ DiskOps < MaxDiskOps
    /\ disk[LivePath].exists
    /\ disk' = [disk EXCEPT ![LivePath] = NoFile]
    /\ hist' = Record(LivePath, "delete")
    /\ UNCHANGED <<dirvars, livefile, lfrun>>

LiveFileNext ==
    \/ ReloadWithStats
    \/ ReloadWithoutStats
    \/ ReloadStat
    \/ ReloadRead
    \/ ReloadFinish
    \/ LiveFileCreate
    \/ LiveFileWrite
    \/ LiveFileDelete

LiveFileSpec == LiveFileInit /\ [][LiveFileNext]_vars



(***************************************************************************)
(* The filter on its own: an instance is constructed with one of many      *)
(* structural keep and ignore rules and #filter is put to paths of files   *)
(* and directories.                                                        *)
(***************************************************************************)
FileC == Root \o <<"/", "c", ".", "x">>

KeepRules ==
    { NoFilter,
      Props({}, {}),
      Props({}, {<<"j">>}),
      Props({<<"b", ".", "h">>}, {<<"j">>}),
      Props({<<"r">>}, {}) }

IgnoreRules ==
    { NoFilter,
      Props({}, {<<"h">>}),
      Props({<<"a", ".", "j">>}, {}),
      Props({<<"r">>}, {<<"h">>}) }

AskPaths == {Root, SubDir, FileA, FileB, FileC}

FilterInit ==
    /\ options \in [static : {TRUE},
                    cache : {[max_file_count |-> 1, max_file_size |-> 1]},
                    filter : [keep : KeepRules, ignore : IgnoreRules]]
    /\ accessible = TRUE
    /\ disk \in InitialDisks
    /\ disk0 = disk
    /\ hist = [p \in FilePaths |-> <<>>]
    /\ phase = "constructing"
    /\ path = <<>>
    /\ tasks = {}
    /\ reloads = {}
    /\ watcher = "undefined"
    /\ wqueue = <<>>
    /\ files = <<>>
    /\ cached = {}
    /\ notes = EmptyBag
    /\ failed = {}
    /\ destroyed = 0
    /\ livefile = NewLiveFile
    /\ lfrun = NoRuns
    /\ asked = <<>>
    /\ dirtree = NoDirTree
    /\ retryfile = NoRetryFile
    /\ treedir = NoTree

\* this._should_ignore(p, stats)
AskFilter ==
    \E p \in AskPaths :
        /\ asked' = <<[path |-> p, ignored |-> _should_ignore(p),
                       compiled |-> path # <<>>]>>
        /\ UNCHANGED <<options, accessible, disk, disk0, hist, phase, path,
                       tasks, reloads, watcher, wqueue, files, cached, notes,
                       failed, destroyed, livefile, lfrun, treedir, dirtree,
                       retryfile>>

FilterNext ==
    \/ Construct
    \/ AskFilter

FilterSpec == FilterInit /\ [][FilterNext]_vars


(***************************************************************************)
(* The tree-based LiveDirectory of src/components/LiveDirectory.js with    *)
(* the LiveFile it constructs (path and retry policy): the watcher's       *)
(* handlers for 'add' and 'ready', and ready().  treedir holds             *)
(*   stage         how far _initiate_watcher and the 'ready' handler are   *)
(*   tree          the files of #tree                                      *)
(*   buffer        the files whose LiveFile has a buffer                   *)
(*   flushed       the files whose LiveFile ran _flush_ready               *)
(*   awaited       the files whose ready() the 'ready' handler awaits      *)
(*   ready_promise "undefined", "promise" or "true"                        *)
(*   ready_resolve whether #ready_resolve is a function                    *)
(*   resolves      how often the resolve of the shared promise was called  *)
(*   calls         what each ready() call returned, and when               *)
(***************************************************************************)
TreeInit ==
    /\ options = [static |-> FALSE,
                  cache |-> [max_file_count |-> 1, max_file_size |-> 1],
                  filter |-> [keep |-> NoFilter, ignore |-> NoFilter]]
    /\ accessible = FALSE
    /\ disk \in InitialDisks
    /\ disk0 = disk
    /\ hist = [p \in FilePaths |-> <<>>]
    /\ phase = "constructing"
    /\ path = <<>>
    /\ tasks = {}
    /\ reloads = {}
    /\ watcher = "undefined"
    /\ wqueue = <<>>
    /\ files = <<>>
    /\ cached = {}
    /\ notes = EmptyBag
    /\ failed = {}
    /\ destroyed = 0
    /\ livefile = NewLiveFile
    /\ lfrun = NoRuns
    /\ asked = <<>>
    /\ dirtree = NoDirTree
    /\ retryfile = NoRetryFile
    /\ \E a \in BOOLEAN, h \in BOOLEAN :
         treedir = [NoTree EXCEPT !.accessible = a, !.hot_reload = h,
                                  !.stage = "constructed"]

TreeUnchanged ==
    UNCHANGED <<options, accessible, disk, disk0, hist, phase, path, tasks,
                reloads, watcher, wqueue, files, cached, notes, failed,
                destroyed, livefile, lfrun, asked, dirtree, retryfile>>

\* _initiate_watcher once is_accessible_path has answered: it throws, inside
\* the promise nobody holds, or starts the watcher and binds the handlers.
InitiateWatcher ==
    /\ treedir.stage = "constructed"
    /\ treedir' = IF treedir.accessible
                  THEN [treedir EXCEPT !.stage = "watching", !.watcher = "open"]
                  ELSE [treedir EXCEPT !.stage = "failed"]
    /\ TreeUnchanged

\* The 'add' handler up to its await: a LiveFile is put into the tree and its
\* first reload is started.
WatcherAdd(f) ==
    /\ treedir.stage = "watching"
    /\ disk[f] # NoFile
    /\ f \notin treedir.tree
    /\ treedir' = [treedir EXCEPT !.tree = @ \cup {f}]
    /\ TreeUnchanged

\* The readFile callback of LiveFile.reload when no retry follows: on an
\* error _flush_ready and the rejection, otherwise the buffer and
\* _flush_ready.
FileLoaded(f) ==
    /\ f \in treedir.tree \ treedir.flushed
    /\ \E error \in BOOLEAN :
         treedir' = [treedir EXCEPT
                        !.buffer = IF error THEN @ ELSE @ \cup {f},
                        !.flushed = @ \cup {f}]
    /\ TreeUnchanged

\* The 'ready' handler up to its await: chokidar has reported every file of
\* the first scan; the handler closes the watcher when hot_reload is false
\* and waits for the files that have no buffer yet.
WatcherReady ==
    /\ treedir.stage = "watching"
    /\ \A f \in FilePaths : disk[f] # NoFile => f \in treedir.tree
    /\ treedir' = [treedir EXCEPT
                      !.stage = "settling",
                      !.watcher = IF treedir.hot_reload THEN @ ELSE "closed",
                      !.awaited = (treedir.tree \ treedir.buffer)
                                      \ treedir.flushed]
    /\ TreeUnchanged

\* The 'ready' handler after its await.
ReadySettle ==
    /\ treedir.stage = "settling"
    /\ treedir.awaited \subseteq treedir.flushed
    /\ treedir' = [treedir EXCEPT
                      !.stage = "ready",
                      !.resolves = IF treedir.ready_resolve THEN @ + 1 ELSE @,
                      !.ready_resolve = FALSE,
                      !.ready_promise = "true"]
    /\ TreeUnchanged

\* ready()
CallReady ==
    /\ treedir.stage # "none"
    /\ Len(treedir.calls) < MaxReadyCalls
    /\ treedir' =
         IF treedir.ready_promise = "true"
         THEN [treedir EXCEPT
                  !.calls = Append(@, [got |-> "resolved",
                                       stage |-> treedir.stage])]
         ELSE [treedir EXCEPT
                  !.ready_promise = "promise",
                  !.ready_resolve =
                      IF treedir.ready_promise = "undefined" THEN TRUE ELSE @,
                  !.calls = Append(@, [got |-> "shared",
                                       stage |-> treedir.stage])]
    /\ TreeUnchanged

TreeNext ==
    \/ InitiateWatcher
    \/ \E f \in FilePaths : WatcherAdd(f)
    \/ \E f \in FilePaths : FileLoaded(f)
    \/ WatcherReady
    \/ ReadySettle
    \/ CallReady

\* The event loop runs every callback that is due; ready() is called when
\* the caller likes.
TreeSpec ==
    /\ TreeInit
    /\ [][TreeNext]_vars
    /\ WF_vars(InitiateWatcher)
    /\ WF_vars(\E f \in FilePaths : WatcherAdd(f))
    /\ WF_vars(\E f \in FilePaths : FileLoaded(f))
    /\ WF_vars(WatcherReady)
    /\ WF_vars(ReadySettle)


(***************************************************************************)
(* DirectoryTree, and the watcher handlers of the tree-based LiveDirectory *)
(* that keep it: 'addDir', 'unlinkDir', 'add' and 'unlink', called by the  *)
(* watcher with the paths below the root. dirtree holds                    *)
(*   structure  the relative paths #structure has a node for; a node is    *)
(*              reached through its parents, so it falls with them         *)
(*   files      #files: relative path -> the LiveFile stored there         *)
(*   made       how many LiveFile objects the 'add' handler has made       *)
(*   last       the handler that ran last, with what it emitted            *)
(***************************************************************************)
MaxFilesMade == 3

DirTreeInit ==
    /\ options = [static |-> FALSE,
                  cache |-> [max_file_count |-> 1, max_file_size |-> 1],
                  filter |-> [keep |-> NoFilter, ignore |-> NoFilter]]
    /\ accessible = TRUE
    /\ disk \in InitialDisks
    /\ disk0 = disk
    /\ hist = [p \in FilePaths |-> <<>>]
    /\ phase = "constructing"
    /\ path = <<>>
    /\ tasks = {}
    /\ reloads = {}
    /\ watcher = "undefined"
    /\ wqueue = <<>>
    /\ files = <<>>
    /\ cached = {}
    /\ notes = EmptyBag
    /\ failed = {}
    /\ destroyed = 0
    /\ livefile = NewLiveFile
    /\ lfrun = NoRuns
    /\ asked = <<>>
    /\ treedir = NoTree
    /\ dirtree = NoDirTree
    /\ retryfile = NoRetryFile

DirTreeUnchanged ==
    UNCHANGED <<options, accessible, disk, disk0, hist, phase, path, tasks,
                reloads, watcher, wqueue, files, cached, notes, failed,
                destroyed, livefile, lfrun, asked, treedir, retryfile>>

\* _relative_path(p), the root being options.path
_relative_path(p) == replaceFirst(forward_slashes(p), Root)

\* The relative paths of the branches _traverse walks through before it
\* comes to the last chunk of rel.
BranchesAbove(rel) ==
    { SubSeq(rel, 1, i - 1) : i \in { j \in 2..Len(rel) : rel[j] = "/" } }

\* The nodes that hang below rel.
Below(rel) == { q \in dirtree.structure : startsWith(q, rel \o <<"/">>) }

\* Whether _traverse(rel, callback) comes to call the callback: rel has a
\* chunk, and no branch on the way is missing.
_traverse(rel) ==
    /\ Len(rel) > 1
    /\ BranchesAbove(rel) \subseteq dirtree.structure

\* DirectoryTree.remove(rel): #structure and #files afterwards.
tree_remove(rel) ==
    [structure |->
        IF _traverse(rel) THEN dirtree.structure \ ({rel} \cup Below(rel))
        ELSE dirtree.structure,
     files |-> MapDelete(dirtree.files, rel)]

\* DirectoryTree.add(rel, file): #structure and #files afterwards; file is
\* <<id>> for a LiveFile and <<>> for the {} of a directory.
tree_add(rel, file) ==
    IF _traverse(rel)
    THEN [structure |-> (dirtree.structure \ Below(rel)) \cup {rel},
          files |-> IF file # <<>> THEN MapSet(dirtree.files, rel, file[1])
                    ELSE dirtree.files]
    ELSE [structure |-> dirtree.structure, files |-> dirtree.files]

\* get(p)
get(p) ==
    LET stripped == IF startsWith(p, Root) THEN replaceFirst(p, Root) ELSE p
        key == IF ~startsWith(stripped, <<"/">>) THEN <<"/">> \o stripped
               ELSE stripped
    IN  IF key \in DOMAIN dirtree.files THEN <<dirtree.files[key]>> ELSE <<>>

\* The 'addDir' handler.
OnAddDir(d) ==
    LET relative == _relative_path(d)
        after == tree_add(relative, <<>>)
    IN  /\ dirtree' = [dirtree EXCEPT
                          !.structure = after.structure,
                          !.files = after.files,
                          !.last = <<[op |-> "addDir", path |-> relative,
                                      file |-> 0,
                                      emitted |-> <<"directory_create", relative>>]>>]
        /\ DirTreeUnchanged

\* The 'unlinkDir' handler.
OnUnlinkDir(d) ==
    LET relative == _relative_path(d)
        after == tree_remove(relative)
    IN  /\ dirtree' = [dirtree EXCEPT
                          !.structure = after.structure,
                          !.files = after.files,
                          !.last = <<[op |-> "unlinkDir", path |-> relative,
                                      file |-> 0,
                                      emitted |-> <<"directory_destroy", relative>>]>>]
        /\ DirTreeUnchanged

\* The 'add' handler up to its await: a new LiveFile is put into the tree.
OnAdd(f) ==
    LET relative == _relative_path(f)
        file == dirtree.made + 1
        after == tree_add(relative, <<file>>)
    IN  /\ dirtree.made < MaxFilesMade
        /\ dirtree' = [dirtree EXCEPT
                          !.structure = after.structure,
                          !.files = after.files,
                          !.made = file,
                          !.last = <<[op |-> "add", path |-> relative,
                                      file |-> file, emitted |-> <<>>]>>]
        /\ DirTreeUnchanged

\* The 'unlink' handler.
OnUnlink(f) ==
    LET relative == _relative_path(f)
        after == tree_remove(relative)
    IN  /\ dirtree' =
             IF relative \in DOMAIN dirtree.files
             THEN [dirtree EXCEPT
                      !.structure = after.structure,
                      !.files = after.files,
                      !.last = <<[op |-> "unlink", path |-> relative,
                                  file |-> dirtree.files[relative],
                                  emitted |-> <<"file_destroy", relative>>]>>]
             ELSE [dirtree EXCEPT
                      !.last = <<[op |-> "unlink", path |-> relative,
                                  file |-> 0, emitted |-> <<>>]>>]
        /\ DirTreeUnchanged

DirTreeNext ==
    \/ \E d \in Dirs : OnAddDir(d)
    \/ \E d \in Dirs \ {Root} : OnUnlinkDir(d)
    \/ \E f \in FilePaths : OnAdd(f)
    \/ \E f \in FilePaths : OnUnlink(f)

DirTreeSpec == DirTreeInit /\ [][DirTreeNext]_vars


(***************************************************************************)
(* The LiveFile with a retry policy (docs/Examples.md), which the          *)
(* tree-based LiveDirectory constructs and reloads from its 'add' and      *)
(* 'change' handlers. retryfile holds                                      *)
(*   max            options.retry.max                                      *)
(*   buffer         #buffer, <<>> while undefined                          *)
(*   reload_promise #reload_promise: 0, or the number of the promise       *)
(*   reload_resolve the promise #reload_resolve and #reload_reject settle  *)
(*   promises       per promise made: "pending", "resolved", "rejected"    *)
(*   reads          the read sequences in flight: the promise they were    *)
(*                  started for, their retry count, and whether they wait  *)
(*                  for readFile or for the retry delay                    *)
(*   calls          per reload() call: the promise it returned, whether it *)
(*                  started a read, and the promise in flight when called  *)
(*   last           what the last readFile returned and what became of it *)
(***************************************************************************)
MaxRetry == 2
MaxReloadCalls == 3

\* What a readFile can come back with.
ReadResults == {"error", "empty", "data"}

RetryInit ==
    /\ options = [static |-> FALSE,
                  cache |-> [max_file_count |-> 1, max_file_size |-> 1],
                  filter |-> [keep |-> NoFilter, ignore |-> NoFilter]]
    /\ accessible = TRUE
    /\ disk \in InitialDisks
    /\ disk0 = disk
    /\ hist = [p \in FilePaths |-> <<>>]
    /\ phase = "constructing"
    /\ path = <<>>
    /\ tasks = {}
    /\ reloads = {}
    /\ watcher = "undefined"
    /\ wqueue = <<>>
    /\ files = <<>>
    /\ cached = {}
    /\ notes = EmptyBag
    /\ failed = {}
    /\ destroyed = 0
    /\ livefile = NewLiveFile
    /\ lfrun = NoRuns
    /\ asked = <<>>
    /\ treedir = NoTree
    /\ dirtree = NoDirTree
    /\ \E max \in 0..MaxRetry : retryfile = [NoRetryFile EXCEPT !.max = max]

RetryUnchanged ==
    UNCHANGED <<options, accessible, disk, disk0, hist, phase, path, tasks,
                reloads, watcher, wqueue, files, cached, notes, failed,
                destroyed, livefile, lfrun, asked, treedir, dirtree>>

\* No call is ever answered with a promise made before.
reuses_promise_never == FALSE

\* this.#reload_promise instanceof Promise
reuses_promise == retryfile.reload_promise # 0

\* One retry more than the policy allows.
should_retry_once_more(result, count) ==
    result = "empty" /\ count <= retryfile.max

\* buffer.length == 0 && count < max
should_retry(result, count) ==
    result = "empty" /\ count < retryfile.max

\* The promise id settled, if it was pending.
Settle(id, how) ==
    [i \in 1..Len(retryfile.promises) |->
        IF i = id /\ retryfile.promises[i] = "pending" THEN how
        ELSE retryfile.promises[i]]

\* The promise in flight: the one a read sequence is running for, 0 if none.
InFlightPromise ==
    IF retryfile.reads = {} THEN 0
    ELSE (CHOOSE r \in retryfile.reads : TRUE).promise

\* reload() as callers use it (fresh): the pending promise is returned, or
\* a promise is made and readFile is called.
RetryReload ==
    /\ Len(retryfile.calls) < MaxReloadCalls
    /\ retryfile' =
         IF reuses_promise
         THEN [retryfile EXCEPT
                  !.calls = Append(@, [promise |-> retryfile.reload_promise,
                                       read |-> FALSE,
                                       joined |-> InFlightPromise])]
         ELSE LET id == Len(retryfile.promises) + 1 IN
              [retryfile EXCEPT
                  !.promises = Append(@, "pending"),
                  !.reload_promise = id,
                  !.reload_resolve = id,
                  !.reads = @ \cup {[promise |-> id, count |-> 0,
                                     pc |-> "reading"]},
                  !.calls = Append(@, [promise |-> id, read |-> TRUE,
                                       joined |-> InFlightPromise])]
    /\ RetryUnchanged

\* The callback of readFile.
RetryReadDone ==
    \E r \in retryfile.reads, result \in ReadResults :
        /\ r.pc = "reading"
        /\ retryfile' =
             IF result = "error"
             THEN [retryfile EXCEPT
                      !.ready_promise = "true",
                      !.promises = Settle(retryfile.reload_resolve, "rejected"),
                      !.reads = @ \ {r},
                      !.last = <<[result |-> result, count |-> r.count,
                                  outcome |-> "rejected"]>>]
             ELSE IF should_retry(result, r.count)
             THEN [retryfile EXCEPT
                      !.reads = (@ \ {r}) \cup {[r EXCEPT !.pc = "waiting"]},
                      !.last = <<[result |-> result, count |-> r.count,
                                  outcome |-> "retry"]>>]
             ELSE [retryfile EXCEPT
                      !.buffer = <<result>>,
                      !.promises = Settle(retryfile.reload_resolve, "resolved"),
                      !.ready_promise = "true",
                      !.reload_resolve = 0,
                      !.reload_promise = 0,
                      !.reads = @ \ {r},
                      !.last = <<[result |-> result, count |-> r.count,
                                  outcome |-> "accepted"]>>]
        /\ RetryUnchanged

\* async_wait(every) is over: reload(false, count + 1) calls readFile again.
RetryAgain ==
    \E r \in retryfile.reads :
        /\ r.pc = "waiting"
        /\ retryfile' = [retryfile EXCEPT
              !.reads = (@ \ {r}) \cup
                            {[r EXCEPT !.pc = "reading", !.count = @ + 1]}]
        /\ RetryUnchanged

RetryNext ==
    \/ RetryReload
    \/ RetryReadDone
    \/ RetryAgain

\* readFile calls back and timers fire; reload() is called when the caller
\* likes.
RetrySpec ==
    /\ RetryInit
    /\ [][RetryNext]_vars
    /\ WF_vars(RetryReadDone)
    /\ WF_vars(RetryAgain)


(***************************************************************************)
(* What the claims speak of.                                               *)
(***************************************************************************)
\* The canonical relative path of a file below the root.
RelOf(p) == SubSeq(p, Len(Root) + 1, Len(p))

NameOf(p) == lastPart(p, "/")
ExtensionOf(p) == lastPart(NameOf(p), ".")

\* A structural rule holds for a path whose name or extension it lists.
RuleHolds(rule, p) ==
    NameOf(p) \in rule[1].names \/ ExtensionOf(p) \in rule[1].extensions

\* The path passes the configured keep and ignore filters.
PassesFilter(p) ==
    /\ options.filter.keep = NoFilter \/ RuleHolds(options.filter.keep, p)
    /\ ~(options.filter.ignore # NoFilter /\ RuleHolds(options.filter.ignore, p))

Count(name, uri) == CopiesIn(<<name, uri>>, notes)
\* The same count after the step.
CountNext(name, uri) == CopiesIn(<<name, uri>>, notes')

\* No file was created below the root since the instance was constructed.
NoCreates == \A p \in FilePaths : \A i \in 1..Len(hist[p]) : hist[p][i].op # "create"

\* A reload of p is awaiting its read, or an event for p is still queued.
InFlight(p) == \E r \in reloads : r.path = p
Queued(p) == \E i \in 1..Len(wqueue) : wqueue[i].path = p

(***************************************************************************)
(* C1: in every reachable state the cached map holds at most               *)
(* cache.max_file_count paths.                                             *)
(***************************************************************************)
C1_CachedCountWithinLimit ==
    Cardinality(cached) <= options.cache.max_file_count

\* C1 witness: the cache is full, the read of a watcher event is in flight,
\* and an eligible file of the index was refused for want of room.
C1_Witness ==
    /\ Cardinality(cached) = options.cache.max_file_count
    /\ \E r \in reloads : ~r.scan
    /\ \E uri \in DOMAIN files :
          /\ ~files[uri].cached
          /\ files[uri].stats.size <= options.cache.max_file_size

(***************************************************************************)
(* C4: every index entry with cached = TRUE has                            *)
(* stats.size <= cache.max_file_size.                                      *)
(***************************************************************************)
C4_CachedEntriesWithinSize ==
    \A uri \in DOMAIN files :
        files[uri].cached => files[uri].stats.size <= options.cache.max_file_size

\* C4 witness: one entry is cached at exactly the size limit while another,
\* larger than the limit, is indexed without content.
C4_Witness ==
    \E u1, u2 \in DOMAIN files :
        /\ files[u1].cached
        /\ files[u1].stats.size = options.cache.max_file_size
        /\ ~files[u2].cached
        /\ files[u2].stats.size > options.cache.max_file_size

(***************************************************************************)
(* C5: once ready was emitted, a file below the root (at any depth) has an *)
(* index entry if and only if it passes the keep/ignore filter. The files  *)
(* meant are those the scan could see: the statement is checked for the    *)
(* files on disk while no file was created after construction and the      *)
(* instance was not destroyed.                                             *)
(***************************************************************************)
C5_ReadyIndexIsFilteredTree ==
    (phase = "ready" /\ destroyed = 0 /\ NoCreates) =>
        /\ \A p \in FilePaths :
              disk[p].exists => (info(p) # <<>> <=> PassesFilter(p))
        /\ \A uri \in DOMAIN files :
              \E p \in FilePaths : uri = RelOf(p) /\ PassesFilter(p)

\* C5 witness: after ready, under a configured filter, the file of the root
\* directory is indexed and the excluded file of the sub directory is not.
C5_Witness ==
    /\ phase = "ready" /\ destroyed = 0 /\ NoCreates
    /\ options.filter # [keep |-> NoFilter, ignore |-> NoFilter]
    /\ disk[FileA].exists /\ info(FileA) # <<>>
    /\ disk[FileB].exists /\ ~PassesFilter(FileB) /\ info(FileB) = <<>>

\* Every change made to p since construction happened under an open watcher.
AllWatched(p) == \A i \in 1..Len(hist[p]) : hist[p][i].watched

\* The watcher has nothing queued for p and no reload of p is in flight.
Quiescent(p) == ~InFlight(p) /\ ~Queued(p)

\* The step taken is the unlink listener handling the oldest queued event.
UnlinkHandled ==
    /\ watcher = "open"
    /\ wqueue # <<>>
    /\ Head(wqueue).type = "unlink"
    /\ wqueue' = Tail(wqueue)
    /\ destroyed' = destroyed

(***************************************************************************)
(* C2: every path of the cached map has an index entry whose cached flag   *)
(* is TRUE and whose stats.size <= cache.max_file_size; a reload that      *)
(* finds a cached path no longer eligible takes it out of the cached map.  *)
(* A path whose read is still in flight, or whose read failed, is left     *)
(* out of the statement.                                                   *)
(***************************************************************************)
C2_CachedPathsAreCachedEntries ==
    \A p \in FilePaths :
        (RelOf(p) \in cached /\ ~InFlight(p) /\ p \notin failed) =>
            /\ info(p) # <<>>
            /\ info(p)[1].cached
            /\ info(p)[1].stats.size <= options.cache.max_file_size

(***************************************************************************)
(* C3: from ready on, every index entry whose cached flag is TRUE has its  *)
(* relative path in the cached map, whatever add, update and delete events *)
(* were handled.                                                           *)
(***************************************************************************)
C3_CachedEntriesAreInCachedMap ==
    (phase = "ready" /\ destroyed = 0) =>
        \A uri \in DOMAIN files : files[uri].cached => uri \in cached

(***************************************************************************)
(* C6: handling the deletion of a file emits exactly one delete with the   *)
(* file's canonical relative path and removes the path from the index and  *)
(* from the cached map; a path whose delete was emitted and which is not   *)
(* in the index enters the index again only with an add notification.      *)
(***************************************************************************)
C6_DeleteRemovesUntilAddedAgain ==
    [][ /\ UnlinkHandled =>
              LET uri == RelOf(Head(wqueue).path) IN
              /\ CountNext("delete", uri) = Count("delete", uri) + 1
              /\ \A u \in { RelOf(q) : q \in FilePaths } \ {uri} :
                    CountNext("delete", u) = Count("delete", u)
              /\ uri \notin DOMAIN files'
              /\ uri \notin cached'
        /\ \A p \in FilePaths :
              LET uri == RelOf(p) IN
              (/\ Count("delete", uri) >= 1
               /\ uri \notin DOMAIN files
               /\ uri \in DOMAIN files')
                  => CountNext("add", uri) = Count("add", uri) + 1
      ]_vars

(***************************************************************************)
(* C7: two reloads of the same path are never in flight at the same time.  *)
(***************************************************************************)
C7_OneReloadPerPath ==
    \A r1, r2 \in reloads : r1.path = r2.path => r1 = r2

(***************************************************************************)
(* C8: once every change event of a path has been handled and no reload of *)
(* it is in flight, a cached entry holds the file's current bytes. Checked *)
(* for files the watcher reports and that changed only while it was open.  *)
(***************************************************************************)
C8_QuiescentCachedContentIsDiskContent ==
    \A p \in FilePaths :
        (/\ destroyed = 0
         /\ WatcherReports(p)
         /\ AllWatched(p)
         /\ Quiescent(p)
         /\ disk[p].exists
         /\ info(p) # <<>>
         /\ info(p)[1].cached)
            => info(p)[1]._content = <<disk[p].content>>

(***************************************************************************)
(* C9: in watching mode one write to a file the scan indexed produces      *)
(* exactly one update for its path, and the entry, if cached, holds the    *)
(* bytes written.                                                          *)
(***************************************************************************)
C9_OneWriteOneUpdate ==
    \A p \in FilePaths :
        (/\ destroyed = 0
         /\ phase = "ready"
         /\ ~options.static
         /\ disk0[p].exists
         /\ PassesFilter(p)
         /\ hist[p] = <<[op |-> "write", watched |-> TRUE, phase |-> "ready"]>>
         /\ Quiescent(p))
            => /\ Count("update", RelOf(p)) = 1
               /\ info(p) # <<>>
               /\ info(p)[1].cached => info(p)[1]._content = <<disk[p].content>>

(***************************************************************************)
(* C10: per path, an update or a delete is emitted only after an add of    *)
(* that path was emitted, under every interleaving of watcher events and   *)
(* reload completions. Checked for files that changed only while the       *)
(* watcher was open, so that no change fell between scan and watch.        *)
(***************************************************************************)
C10_AddComesFirst ==
    [][ \A p \in FilePaths :
          LET uri == RelOf(p) IN
          (/\ AllWatched(p)
           /\ \/ CountNext("update", uri) > Count("update", uri)
              \/ CountNext("delete", uri) > Count("delete", uri))
              => Count("add", uri) >= 1
      ]_vars

\* The file was on disk at construction and has not been removed since.
NeverRemoved(p) ==
    /\ disk0[p].exists
    /\ \A i \in 1..Len(hist[p]) : hist[p][i].op # "delete"

(***************************************************************************)
(* C11: ready is emitted only after the scan has read every directory and  *)
(* the first reload of every file it found and did not exclude has         *)
(* resolved: in the step that emits ready no scan I/O is outstanding and   *)
(* every such file has its index entry.                                    *)
(***************************************************************************)
C11_ReadyOnlyAfterScan ==
    [][ (CountNext("ready", <<>>) > Count("ready", <<>>) /\ destroyed = 0) =>
            /\ tasks = {}
            /\ \A r \in reloads : ~r.scan
            /\ \A p \in FilePaths :
                  (NeverRemoved(p) /\ PassesFilter(p)) => info(p) # <<>>
      ]_vars

\* C11 witness: ready was emitted over a tree with a file in the root
\* directory and one in the sub directory, both indexed, one of them
\* rewritten while the scan was running.
C11_Witness ==
    /\ Count("ready", <<>>) = 1
    /\ destroyed = 0
    /\ info(FileA) # <<>>
    /\ info(FileB) # <<>>
    /\ \E p \in FilePaths :
          hist[p] = <<[op |-> "write", watched |-> FALSE, phase |-> "scanning"]>>

\* No readdir, stat or readFile of the scan is outstanding.
ScanIODone ==
    /\ phase # "constructing"
    /\ \A t \in tasks : t.op \notin {"readdir", "stat"}
    /\ \A r \in reloads : ~r.scan

(***************************************************************************)
(* C12: ready is emitted at most once per instance, and for an accessible  *)
(* root it is emitted once all I/O of the scan has finished: with no scan  *)
(* I/O outstanding, ready has been emitted or is the scan's next step.     *)
(***************************************************************************)
C12_ReadyExactlyOnce ==
    /\ Count("ready", <<>>) <= 1
    /\ (accessible /\ ScanIODone) =>
           (Count("ready", <<>>) = 1 \/ ENABLED Ready)

(***************************************************************************)
(* C13: a stat or read failure on one path is reported by an error         *)
(* notification carrying that path and does not keep the instance from     *)
(* reaching ready: no promise of the scan stays pending because of it.     *)
(***************************************************************************)
C13_ErrorIsIsolated ==
    \A p \in failed :
        /\ Count("error", RelOf(p)) >= 1
        /\ Pending(p) \notin tasks

(***************************************************************************)
(* C15: destroy invalidates the work in flight: whatever was started       *)
(* before it and completes after it is discarded, so the index and the     *)
(* cached map stay empty once the instance was destroyed.                  *)
(***************************************************************************)
C15_DestroyedStaysEmpty ==
    destroyed >= 1 => (files = <<>> /\ cached = {})

(***************************************************************************)
(* C16: destroying the instance releases the watcher if there is one,      *)
(* leaves the index and the cached map empty, and emits a notification     *)
(* named destroy.                                                          *)
(***************************************************************************)
C16_DestroyReleasesAndNotifies ==
    [][ destroyed' = destroyed + 1 =>
            /\ watcher' # "open"
            /\ files' = <<>>
            /\ cached' = {}
            /\ CountNext("destroy", <<>>) = Count("destroy", <<>>) + 1
      ]_vars

(***************************************************************************)
(* C17: for every indexed file the lookup finds the same entry whether the *)
(* path is given as the absolute path, as the root-relative path with a    *)
(* leading separator, or as the bare relative path, also when the relative *)
(* path begins with the text of the root path.                             *)
(***************************************************************************)
C17_LookupFormsAgree ==
    \A p \in FilePaths :
        info(p) # <<>> =>
            /\ info(RelOf(p)) = info(p)
            /\ info(Tail(RelOf(p))) = info(p)

\* The notifications about files emitted so far.
FileNotes(n) ==
    [name \in {"add", "update", "delete"}, p \in FilePaths |->
        CopiesIn(<<name, RelOf(p)>>, n)]

IsWeak(etag) == etag[1] = "W/"

(***************************************************************************)
(* C14: when the most recent reload of a file failed, the entry is the one *)
(* the previous successful reload produced, unchanged. Stated of a         *)
(* LiveFile that loaded successfully before and has no reload in flight.   *)
(***************************************************************************)
C14_FailedReloadKeepsEntry ==
    (lfrun.last = "failed" /\ lfrun.calls = {} /\ lfrun.good # <<>>) =>
        livefile = lfrun.good[1]

(***************************************************************************)
(* C19: after any sequence of reloads an entry holds content if and only   *)
(* if it is cached, its ETag is strong (the hash of the content) exactly   *)
(* when it is cached and weak (W/, the hash of size, ctime, mtime) exactly *)
(* when it is not; a reload that does not cache discards the content an    *)
(* earlier reload held.                                                    *)
(***************************************************************************)
C19_ContentAndETagFollowCached ==
    (lfrun.calls = {} /\ livefile.etag # <<>>) =>
        /\ LiveCached <=> livefile.content # <<>>
        /\ LiveCached <=> ~IsWeak(livefile.etag[1])
        /\ LiveCached => livefile.etag[1] = <<"\"", _md5_hash(livefile.content[1]), "\"">>
        /\ ~LiveCached =>
              LET st == livefile.stats[1] IN
              livefile.etag[1] =
                  <<"W/", "\"", _md5_hash(<<st.size, st.ctimeMs, st.mtimeMs>>), "\"">>

(***************************************************************************)
(* C20: between two consecutive reloads of a file the ETag changes if and  *)
(* only if the file's content or its metadata (size, ctime, mtime)         *)
(* changed; reloading an unchanged file leaves the ETag as it was. Stated  *)
(* of a reload that completes with no other reload of the file in flight.  *)
(***************************************************************************)
C20_ETagChangesWithTheFile ==
    [][ (/\ lfrun'.updates = lfrun.updates + 1
         /\ lfrun.good # <<>>
         /\ lfrun'.calls = {}
         /\ Cardinality(lfrun.calls) <= 1)
            => (livefile'.etag # lfrun.good[1].etag
                    <=> disk[LivePath] # lfrun.seen[1])
      ]_vars

\* The smaller of two numbers.
Min(a, b) == IF a <= b THEN a ELSE b

\* The paths of the index whose entry is cached.
CachedEntries == { uri \in DOMAIN files : files[uri].cached }

\* The scan's result is still in place: no file was created or removed and
\* the watcher has reported nothing.
ScanResultInPlace ==
    /\ phase = "ready"
    /\ destroyed = 0
    /\ \A p \in FilePaths : \A i \in 1..Len(hist[p]) :
          hist[p][i].op = "write" /\ ~hist[p][i].watched

(***************************************************************************)
(* C21: after ready, when the N files that pass the filter all have a size *)
(* within cache.max_file_size, all N are in the index and exactly          *)
(* min(N, max_file_count) of them are cached; the cached entries carry a   *)
(* strong ETag and the others a weak one.                                  *)
(***************************************************************************)
C21_ScanCachesUpToTheLimit ==
    LET passing == { p \in FilePaths : disk[p].exists /\ PassesFilter(p) } IN
    (/\ ScanResultInPlace
     /\ \A uri \in DOMAIN files :
           files[uri].stats.size <= options.cache.max_file_size)
        => /\ DOMAIN files = { RelOf(p) : p \in passing }
           /\ Cardinality(CachedEntries) =
                 Min(Cardinality(passing), options.cache.max_file_count)
           /\ Cardinality(cached) = Cardinality(CachedEntries)
           /\ \A uri \in DOMAIN files :
                 files[uri].cached <=> ~IsWeak(files[uri].etag)

\* C21 witness: max_file_count is 1, both files are eligible and indexed,
\* exactly one of them is cached with a strong ETag, the other is weak.
C21_Witness ==
    /\ ScanResultInPlace
    /\ options.cache.max_file_count = 1
    /\ \E u1, u2 \in DOMAIN files :
          /\ u1 # u2
          /\ files[u1].cached /\ ~IsWeak(files[u1].etag)
          /\ ~files[u2].cached /\ IsWeak(files[u2].etag)
          /\ files[u2].stats.size <= options.cache.max_file_size

\* The rule is configured and holds for the path.
Configured(rule, p) == rule # NoFilter /\ RuleHolds(rule, p)

(***************************************************************************)
(* C22: the filter verdict composes keep then ignore: a path is excluded   *)
(* if and only if a keep filter is configured and does not hold for it, or *)
(* an ignore filter is configured and holds for it; with neither nothing   *)
(* is excluded, and a path matching both keep and ignore is excluded.      *)
(***************************************************************************)
C22_VerdictComposesKeepThenIgnore ==
    (asked # <<>> /\ asked[1].compiled) =>
        LET p == asked[1].path
            keep == options.filter.keep
            ignore == options.filter.ignore
        IN  /\ asked[1].ignored <=>
                  \/ (keep # NoFilter /\ ~RuleHolds(keep, p))
                  \/ (ignore # NoFilter /\ RuleHolds(ignore, p))
            /\ (keep = NoFilter /\ ignore = NoFilter) => ~asked[1].ignored
            /\ (Configured(keep, p) /\ Configured(ignore, p)) => asked[1].ignored

\* C22 witness: the path asked about matches the keep rule and the ignore
\* rule, and the verdict is to exclude it.
C22_Witness ==
    /\ asked # <<>>
    /\ asked[1].compiled
    /\ Configured(options.filter.keep, asked[1].path)
    /\ Configured(options.filter.ignore, asked[1].path)
    /\ asked[1].ignored

C24_EmptyKeepRuleKeepsEverything ==
    (/\ phase = "ready"
     /\ destroyed = 0
     /\ NoCreates
     /\ options.filter = [keep |-> Props({}, {}), ignore |-> NoFilter])
        => \A p \in FilePaths : disk[p].exists => info(p) # <<>>

\* The step creates or rewrites the file p on disk.
Touched(p) ==
    /\ Len(hist'[p]) = Len(hist[p]) + 1
    /\ hist'[p][Len(hist'[p])].op \in {"create", "write"}

(***************************************************************************)
(* C25: directories always pass the keep check, in the scan and in the     *)
(* predicate handed to the watcher: under a structural keep rule a kept    *)
(* file created or changed below any directory while the watcher is open   *)
(* is reported by the watcher and so reconciled into the index.            *)
(***************************************************************************)
C25_KeptFilesBelowDirectoriesAreWatched ==
    [][ \A p \in FilePaths :
          (/\ watcher = "open"
           /\ options.filter.keep # NoFilter
           /\ PassesFilter(p)
           /\ Touched(p))
              => /\ Len(wqueue') = Len(wqueue) + 1
                 /\ wqueue'[Len(wqueue')].path = p
      ]_vars

(***************************************************************************)
(* C26: the root path is never excluded, whatever keep and ignore filters  *)
(* are configured: the predicate handed to the watcher returns false for   *)
(* the root.                                                               *)
(***************************************************************************)
C26_RootIsNeverExcluded ==
    path # <<>> => ~_should_ignore(path[1])

\* The directories below the root that contain p.
DirsAbove(p) == Ancestors(p) \ {Root}

(***************************************************************************)
(* C27: a structural ignore rule applies its names to files and            *)
(* directories: no file beneath a directory whose name is in the ignore    *)
(* names list is in the index, after the scan and while watching.          *)
(***************************************************************************)
C27_NothingBelowIgnoredDirectories ==
    (phase = "ready" /\ destroyed = 0 /\ options.filter.ignore # NoFilter) =>
        \A p \in FilePaths :
            (\E d \in DirsAbove(p) : NameOf(d) \in options.filter.ignore[1].names)
                => info(p) = <<>>

\* Whether the signal the i-th ready() call returned is resolved.
SignalResolved(i) ==
    \/ treedir.calls[i].got = "resolved"
    \/ treedir.resolves >= 1

(***************************************************************************)
(* C28: every call to ready() returns a completion signal that eventually  *)
(* resolves.                                                               *)
(***************************************************************************)
C28_ReadySignalsResolve ==
    \A i \in 1..MaxReadyCalls :
        (Len(treedir.calls) >= i) ~> (Len(treedir.calls) >= i /\ SignalResolved(i))

(***************************************************************************)
(* C29: every key of the files map was announced by an add notification    *)
(* with that key no later than the step that made the key visible.         *)
(* Checked for files that changed only while the watcher was open.         *)
(***************************************************************************)
C29_VisibleKeysWereAnnounced ==
    [][ \A p \in FilePaths :
          LET uri == RelOf(p) IN
          (AllWatched(p) /\ uri \notin DOMAIN files /\ uri \in DOMAIN files')
              => CountNext("add", uri) >= 1
      ]_vars

\* The strings a caller may look up: the files by absolute path, by relative
\* path and without the leading separator, the root, and a path of no file
\* that holds the root's text in its middle.
LookupPaths ==
    AskPaths
        \cup { RelOf(p) : p \in FilePaths \cup {FileC} }
        \cup { Tail(RelOf(p)) : p \in FilePaths \cup {FileC} }
        \cup { <<"/", "a", "/", "r", ".", "j">> }

\* The keys p can stand for: itself, itself after a leading separator, and
\* what follows the root when p begins with it.
Readings(p) ==
    {p, <<"/">> \o p}
        \cup (IF startsWith(p, Root) THEN {RelOf(p)} ELSE {})
        \cup (IF startsWith(p, Root) /\ Len(p) > Len(Root) /\ RelOf(p)[1] # "/"
              THEN {<<"/">> \o RelOf(p)} ELSE {})

HasNoEntry(p) == Readings(p) \cap DOMAIN files = {}

(***************************************************************************)
(* C30: a lookup of a string path that has no index entry returns not      *)
(* found, in every state of the instance: while scanning, before and after *)
(* the root is set, when ready and watching, and after destruction.        *)
(***************************************************************************)
C30_AbsentLookupsFindNothing ==
    \A p \in LookupPaths :
        HasNoEntry(p) => (info(p) = <<>> /\ content(p) = <<>>)

\* C30 witness: the scan has indexed one file and not yet the other, which
\* is on disk and is looked up.
C30_Witness ==
    /\ phase = "scanning"
    /\ path # <<>>
    /\ files # <<>>
    /\ \E p \in FilePaths :
         /\ disk[p] # NoFile
         /\ HasNoEntry(p)
         /\ info(p) = <<>>

(***************************************************************************)
(* C31: a delete wins over an in-flight reload of the same path: when the  *)
(* unlink of a path was handled while the read of an add or change of that *)
(* path was in flight (the reload's place in the cached map is gone), the  *)
(* path is in neither the index nor the cached map once the read's         *)
(* continuation has run.                                                   *)
(***************************************************************************)
C31_DeleteWinsOverInFlightReload ==
    [][ \A r \in reloads :
          LET uri == RelOf(r.path) IN
          (/\ destroyed = 0
           /\ r.phase = "read"
           /\ r \notin reloads'
           /\ Count("delete", uri) >= 1
           /\ uri \notin cached)
              => /\ uri \notin DOMAIN files'
                 /\ uri \notin cached'
      ]_vars

(***************************************************************************)
(* C32: destroyed is terminal from every state: once destory() was called, *)
(* also while the first scan is still running, the instance emits no       *)
(* ready, add, update or delete any more and creates no watcher.           *)
(***************************************************************************)
C32_DestroyedIsTerminal ==
    [][ destroyed >= 1 =>
          /\ CountNext("ready", <<>>) = Count("ready", <<>>)
          /\ \A p \in FilePaths, name \in {"add", "update", "delete"} :
                CountNext(name, RelOf(p)) = Count(name, RelOf(p))
          /\ watcher' = "open" => watcher = "open"
      ]_vars

(***************************************************************************)
(* C33: a reader sees the whole entry a reload left, never a mixture: the  *)
(* stats, etag and content of the LiveFile are at every moment those the   *)
(* last finished reload set together.                                      *)
(***************************************************************************)
C33_ReadersSeeWholeEntries ==
    lfrun.good # <<>> => livefile = lfrun.good[1]

\* p was created after the instance was constructed and not removed since.
CreatedAndKept(p) ==
    /\ disk[p].exists
    /\ \E i \in 1..Len(hist[p]) :
          /\ hist[p][i].op = "create"
          /\ \A j \in (i + 1)..Len(hist[p]) : hist[p][j].op # "delete"

\* The instance watches and has nothing left to do: no scan I/O, no reload
\* and no watcher event is outstanding.
Settled ==
    /\ phase = "ready"
    /\ watcher = "open"
    /\ destroyed = 0
    /\ tasks = {}
    /\ reloads = {}
    /\ wqueue = <<>>

(***************************************************************************)
(* C34: in watching mode the index converges to the directory: a file that *)
(* was created at any moment after construction, also during the scan, and *)
(* was not deleted again is in the index once the instance has nothing     *)
(* left to do. Checked without filters.                                    *)
(***************************************************************************)
C34_IndexConvergesToDirectory ==
    (Settled /\ options.filter = [keep |-> NoFilter, ignore |-> NoFilter]) =>
        \A p \in FilePaths :
            (CreatedAndKept(p) /\ p \notin failed) => info(p) # <<>>

\* The entry of uri, <<>> when there is none, now and after the step.
EntryOf(uri) == IF uri \in DOMAIN files THEN <<files[uri]>> ELSE <<>>
EntryOfNext(uri) == IF uri \in DOMAIN files' THEN <<files'[uri]>> ELSE <<>>

\* The step is part of handling q: its watcher event, its stat by the scan,
\* or the read or continuation of one of its reloads.
StepIsAbout(q) ==
    \/ wqueue # <<>> /\ wqueue' = Tail(wqueue) /\ Head(wqueue).path = q
    \/ \E t \in tasks : t.path = q /\ t.op = "stat" /\ t \notin tasks'
    \/ \E r \in reloads : r.path = q /\ r \notin reloads'

(***************************************************************************)
(* C35: there is no capacity-driven eviction: handling an add or update of *)
(* a path changes neither the entry (cached flag, content, etag) nor the   *)
(* cached-map membership of any other path; short of destory(), a path     *)
(* leaves the cached map only when its own delete is handled.              *)
(***************************************************************************)
C35_NoEviction ==
    [][ destroyed' = destroyed =>
          \A q \in FilePaths :
             LET uri == RelOf(q) IN
             /\ (\/ EntryOfNext(uri) # EntryOf(uri)
                 \/ (uri \in cached') # (uri \in cached))
                    => StepIsAbout(q)
             /\ (uri \in cached /\ uri \notin cached')
                    => (UnlinkHandled /\ Head(wqueue).path = q)
      ]_vars

\* C35 witness: the cache is full with one path, and the other path, small
\* enough to be cached, was indexed without content while the first kept
\* its place and its cached entry.
C35_Witness ==
    /\ phase = "ready" /\ destroyed = 0
    /\ \E u1, u2 \in DOMAIN files :
         /\ u1 # u2
         /\ cached = {u1}
         /\ files[u1].cached
         /\ ~files[u2].cached
         /\ files[u2].stats.size <= options.cache.max_file_size

(***************************************************************************)
(* C36: when a directory-removed event is handled the whole subtree goes   *)
(* and directory_destroy is emitted with the directory's relative path:    *)
(* right after the handler, get() finds no file that was beneath the       *)
(* directory, with no unlink event of the files handled.                   *)
(***************************************************************************)
C36_DirectoryRemovalRemovesSubtree ==
    (dirtree.last # <<>> /\ dirtree.last[1].op = "unlinkDir") =>
        /\ dirtree.last[1].emitted = <<"directory_destroy", dirtree.last[1].path>>
        /\ \A f \in FilePaths :
              startsWith(RelOf(f), dirtree.last[1].path \o <<"/">>)
                  => get(f) = <<>>

(***************************************************************************)
(* C39: after the handler of a file-created event for a path has run,      *)
(* get() of the path returns the LiveFile made for it and the tree         *)
(* structure holds the path, whether or not the directory-created events   *)
(* of its parent directories were handled before.                          *)
(***************************************************************************)
C39_AddedFileIsInTheTree ==
    (dirtree.last # <<>> /\ dirtree.last[1].op = "add") =>
        /\ \A f \in FilePaths :
              RelOf(f) = dirtree.last[1].path => get(f) = <<dirtree.last[1].file>>
        /\ dirtree.last[1].path \in dirtree.structure

(***************************************************************************)
(* C37: reload() calls made while a reload is in flight are coalesced:     *)
(* they return the promise in flight and start no read, so at most one     *)
(* read sequence is in flight, and the callers' promise is the one that    *)
(* settles when that reload settles.                                       *)
(***************************************************************************)
C37_ReloadsInFlightAreCoalesced ==
    /\ Cardinality(retryfile.reads) <= 1
    /\ \A i \in 1..Len(retryfile.calls) :
          retryfile.calls[i].joined # 0 =>
              /\ retryfile.calls[i].promise = retryfile.calls[i].joined
              /\ ~retryfile.calls[i].read
    /\ \A i \in 1..Len(retryfile.promises) :
          retryfile.promises[i] = "pending" => InFlightPromise = i

\* C37 witness: two calls were made while the first call's reload was in
\* flight, and the promise the three share has settled.
C37_Witness ==
    /\ Len(retryfile.calls) = 3
    /\ retryfile.calls[1].read
    /\ retryfile.calls[2].joined = retryfile.calls[1].promise
    /\ retryfile.calls[3].joined = retryfile.calls[1].promise
    /\ retryfile.promises[retryfile.calls[1].promise] # "pending"

(***************************************************************************)
(* C38: once a reload has settled, whether it succeeded or failed, the     *)
(* next reload() call starts a fresh read of the file.                     *)
(***************************************************************************)
C38_SettledReloadAllowsFreshRead ==
    \A i \in 1..Len(retryfile.calls) :
        retryfile.calls[i].joined = 0 => retryfile.calls[i].read

(***************************************************************************)
(* C40: the retry policy terminates: a reload reads again only when a read *)
(* returned zero bytes, reads at most retry.max + 1 times, then accepts    *)
(* the content even if empty; a read error ends the reload at once with    *)
(* rejection and no retry; and the reload's promise always settles.        *)
(***************************************************************************)
RetryPolicyKept ==
    /\ \A r \in retryfile.reads : r.count <= retryfile.max
    /\ retryfile.last # <<>> =>
         LET l == retryfile.last[1] IN
         /\ l.count <= retryfile.max
         /\ l.outcome = "retry" <=> (l.result = "empty" /\ l.count < retryfile.max)
         /\ l.outcome = "rejected" <=> l.result = "error"
         /\ l.outcome = "rejected" =>
               /\ retryfile.reads = {}
               /\ \A i \in 1..Len(retryfile.promises) :
                     retryfile.promises[i] # "pending"

C40_RetryPolicyTerminates ==
    /\ []RetryPolicyKept
    /\ \A i \in 1..MaxReloadCalls :
          (Len(retryfile.promises) >= i)
              ~> (Len(retryfile.promises) >= i /\ retryfile.promises[i] # "pending")

\* C40 witness: with retries allowed, the last read of a reload returned
\* zero bytes like every read before it, and the empty content was accepted.
C40_Witness ==
    /\ retryfile.max >= 1
    /\ retryfile.last # <<>>
    /\ retryfile.last[1] = [result |-> "empty", count |-> retryfile.max,
                            outcome |-> "accepted"]
    /\ retryfile.buffer = <<"empty">>
    /\ retryfile.promises[1] = "resolved"

====
